---- MODULE Spec2Model ----
(***************************************************************************)
(* The overlay's frame orchestrator (overlay/src/lib.rs): System::init,    *)
(* System::main_loop and SystemRuntimeController, driven by the events the *)
(* windowing event loop delivers to the closure passed to run_return.      *)
(*                                                                         *)
(* One action per event delivered to the closure; each action runs the     *)
(* whole match arm.  The calls an arm makes are appended, in program       *)
(* order, to the observation variable `calls`, which is cleared when the   *)
(* iteration ends (RedrawEventsCleared).                                   *)
(***************************************************************************)
EXTENDS Integers, Sequences, FiniteSets, TLC

\* Bound on the number of loop iterations (NewEvents deliveries) explored.
MaxIter == 5
\* Bound on the number of font sources the update callback may register.
MaxFonts == 4
\* Bound on the history length typed into the debug panel.
MaxHistory == 3

\* Screen rectangles (x, y, width, height) the target can occupy.
Rects == { <<0, 0, 800, 600>>, <<100, 50, 800, 600>>, <<0, 0, 1024, 768>> }
\* The tracker's bounds before any rectangle has been read.
NoRect == <<0, 0, 0, 0>>
\* Rectangle of the target when the tracker is created.
InitialTargetRect == <<0, 0, 800, 600>>
\* Rectangle of the freshly created (hidden) overlay window.
InitialWindowRect == <<0, 0, 640, 480>>

VARIABLES
    el,                  \* position of the event loop inside run_return
    control_flow,        \* the event loop's control flow
    result,              \* value returned by run_return / main_loop
    iterations,          \* number of NewEvents delivered
    frame_count,         \* SystemRuntimeController.frame_count
    debug_overlay_shown, \* SystemRuntimeController.debug_overlay_shown
    imgui_fonts,         \* SystemRuntimeController.imgui_fonts
    window_tracker,      \* SystemRuntimeController.window_tracker
    overlay_rect,        \* rectangle of the overlay window
    overlay_visible,     \* whether the overlay window is shown
    imgui_register_fonts_callback, \* whether the options carry a callback
    display_affinity,    \* display affinity of the overlay window
    perf,                \* the PerfTracker of the loop
    target_kind,         \* OverlayTarget variant
    target_exists,       \* whether the target window handle is valid
    target_rect,         \* current rectangle of the target
    calls,               \* calls made so far in the current iteration
    rets,                \* outcomes observed in the current iteration
    hist,                \* counts of calls over the whole run
    first_reason         \* checkpoint that first set the control flow to exit

vars == << el, control_flow, result, iterations, frame_count,
           debug_overlay_shown, imgui_fonts, window_tracker, overlay_rect,
           overlay_visible, imgui_register_fonts_callback, display_affinity,
           perf, target_kind, target_exists, target_rect, calls, rets, hist,
           first_reason >>

----------------------------------------------------------------------------
\* ControlFlow of the event loop.  Exit is the constant ExitWithCode(0).
Poll == [exit |-> FALSE, code |-> 0]
ExitWithCode(c) == [exit |-> TRUE, code |-> c]
Exit == ExitWithCode(0)

\* Code set when platform.prepare_frame fails.
PrepareFailedCode == 1
\* Code set when the render callback returns false.
RenderStopCode == 0
\* result before run_return has returned, and once it has returned code c.
NotReturned == << >>
Returned(c) == << c >>

NoRets == [tracker |-> "none", update |-> "none", prepare |-> "none",
           render |-> "none", dirty_at_check |-> "none",
           dirty_after_build |-> "none", dirty_after_reg |-> "none",
           history_edit |-> 0, capture |-> "none", debug |-> "none"]

NoHist == [submissions |-> 0, render_calls |-> 0, loss_reports |-> 0,
           show_count |-> 0, force_marks |-> 0, render_stop_at |-> 0,
           move_synced |-> FALSE, prepare_failures |-> 0,
           uploaded |-> FALSE,
           last_capture |-> [value |-> "none", ok |-> FALSE]]

Flag(b) == IF b THEN "set" ELSE "clear"

----------------------------------------------------------------------------
\* FontAtlasBuilder: the number of registered sources and the dirty flag.
FontAtlasBuilder_new == [fonts |-> 0, updated |-> FALSE]
register_font(b) == [fonts |-> b.fonts + 1, updated |-> TRUE]
register_codepoints(b) == [b EXCEPT !.updated = TRUE]
\* Query and clear the dirty flag.
fetch_reset_flag_updated(b) == [ret |-> b.updated, b |-> [b EXCEPT !.updated = FALSE]]

\* WindowTracker: last known bounds, the force-update flag, and the state.
WindowTracker_new == [bounds |-> NoRect, force |-> FALSE, state |-> "Tracking"]
mark_force_update(t) == [t EXCEPT !.force = TRUE]

\* Initial history length of the loop's PerfTracker.
PERF_RECORDS == 2048

\* PerfTracker: the history length and the stored records, oldest first.  A
\* record holds the time of its begin and the marks added since.
PerfTracker_new(n) == [history_length |-> n, records |-> << >>]
LastRecords(recs, k) ==
    IF Len(recs) <= k THEN recs ELSE SubSeq(recs, Len(recs) - k + 1, Len(recs))

\* begin: open a new record, evicting the oldest when the ring is full.
PerfTracker_begin(p, now) ==
    [p EXCEPT !.records =
        Append(LastRecords(@, p.history_length - 1), [at |-> now, marks |-> << >>])]
\* mark: append to the current record.
PerfTracker_mark(p, label) ==
    IF p.records = << >> THEN p
    ELSE [p EXCEPT !.records[Len(p.records)].marks = Append(@, label)]
PerfTracker_history_length(p) == p.history_length
\* set_history_length: keep the most recent records up to the new length.
PerfTracker_set_history_length(p, k) ==
    [history_length |-> k, records |-> LastRecords(p.records, k)]

\* Faulty variant: startup registers nothing.
init_imgui_fonts_unregistered == FontAtlasBuilder_new

\* init: the builder after the three bundled fonts and the default range.
init_imgui_fonts ==
    register_codepoints(register_font(register_font(register_font(FontAtlasBuilder_new))))

----------------------------------------------------------------------------
\* The mutable state a handler invocation works on.
Cur == [cf |-> control_flow, frame_count |-> frame_count,
        debug_overlay_shown |-> debug_overlay_shown,
        imgui_fonts |-> imgui_fonts, window_tracker |-> window_tracker,
        overlay_rect |-> overlay_rect, overlay_visible |-> overlay_visible,
        display_affinity |-> display_affinity, perf |-> perf,
        calls |-> calls, rets |-> rets, hist |-> hist,
        why |-> "none", ret |-> TRUE]

Log(s, c) == [s EXCEPT !.calls = Append(@, c)]

\* Top of the closure: *control_flow = Poll; platform.handle_event(..).
HandlerEntry(s) == [s EXCEPT !.cf = Poll, !.why = "none"]

\* A termination checkpoint: set the control flow and return.
Stop(s, cf, why) == [s EXCEPT !.cf = cf, !.why = why]

\* perf.begin() and perf.mark(label) as the closure calls them.
perf_begin(s) ==
    [Log(s, "perf.begin") EXCEPT !.perf = PerfTracker_begin(@, iterations + 1)]
perf_mark(s, label) ==
    [Log(s, label) EXCEPT !.perf = PerfTracker_mark(@, label)]

----------------------------------------------------------------------------
\* Input Synchronization and the active tracker keep only transient state.
MouseInputSystem_update(s) == Log(s, "mouse.update")
KeyboardInputSystem_update(s) == Log(s, "keyboard.update")
ActiveTracker_update(s) == Log(s, "active_tracker.update")

\* The target window no longer exists.
TargetLost == target_kind = "Window" /\ ~target_exists

\* WindowTracker::update: false when the target window no longer exists;
\* otherwise the overlay is moved onto the target's rectangle when that
\* differs from the last known bounds or a forced update is pending.
WindowTracker_update(s) ==
    LET s1 == Log(s, "window_tracker.update")
        t == s1.window_tracker
    IN  IF TargetLost
        THEN [s1 EXCEPT !.window_tracker.state = "TargetClosed",
                        !.ret = FALSE,
                        !.rets.tracker = "lost",
                        !.hist.loss_reports = @ + 1]
        ELSE [s1 EXCEPT !.window_tracker = [bounds |-> target_rect,
                                            force |-> FALSE,
                                            state |-> "Tracking"],
                        !.overlay_rect = IF target_rect # t.bounds \/ t.force
                                         THEN target_rect ELSE @,
                        !.ret = TRUE,
                        !.rets.tracker = "ok",
                        !.hist.move_synced =
                            @ \/ (t.bounds # NoRect /\ target_rect # t.bounds)]

\* Faulty variant: the keyboard is sampled before the mouse.
update_state_keyboard_first(s) ==
    WindowTracker_update(
        ActiveTracker_update(
            MouseInputSystem_update(
                KeyboardInputSystem_update(s))))

\* Faulty variant: the window tracker is only updated while the overlay is
\* still hidden.
update_state_tracks_hidden_only(s) ==
    LET s1 == ActiveTracker_update(
                  KeyboardInputSystem_update(
                      MouseInputSystem_update(s)))
    IN  IF s1.overlay_visible THEN [s1 EXCEPT !.ret = TRUE]
        ELSE WindowTracker_update(s1)

\* SystemRuntimeController::update_state
update_state(s) ==
    WindowTracker_update(
        ActiveTracker_update(
            KeyboardInputSystem_update(
                MouseInputSystem_update(s))))

\* The display affinity asked for.
TargetAffinity(should_be_visible) ==
    IF should_be_visible THEN "WDA_NONE" ELSE "WDA_EXCLUDEFROMCAPTURE"

\* Faulty variant: a failed OS call stops the loop.
toggle_screen_capture_visibility_fatal(s, should_be_visible, os_ok) ==
    IF os_ok
    THEN [s EXCEPT !.display_affinity = TargetAffinity(should_be_visible)]
    ELSE [s EXCEPT !.cf = ExitWithCode(PrepareFailedCode)]

\* SystemRuntimeController::toggle_screen_capture_visibility; os_ok is the
\* outcome of SetWindowDisplayAffinity (a failure is logged as a warning).
toggle_screen_capture_visibility(s, should_be_visible, os_ok) ==
    LET target_state == TargetAffinity(should_be_visible)
    IN  IF os_ok THEN [s EXCEPT !.display_affinity = target_state] ELSE s

\* Faulty variant: the flag is flipped whatever value is asked for.
toggle_debug_overlay_flips(s, visible) ==
    [s EXCEPT !.debug_overlay_shown = ~s.debug_overlay_shown]

\* SystemRuntimeController::toggle_debug_overlay
toggle_debug_overlay(s, visible) == [s EXCEPT !.debug_overlay_shown = visible]

\* What the caller's update callback may do with the runtime controller:
\* its return value, a registration with imgui_fonts, a toggle of the debug
\* overlay and a toggle of the capture visibility.  The display affinity is
\* read by nothing in the loop, so the frames are explored with callbacks
\* that leave it alone.
UpdateInputs ==
    [ret : BOOLEAN, reg : {"none", "font", "codepoints"},
     debug : {"none", "on", "off"}, capture : {"none"}, os_ok : {TRUE}]
\* An update callback that does nothing and asks to continue.
IdleUpdate == [ret |-> TRUE, reg |-> "none", debug |-> "none",
               capture |-> "none", os_ok |-> TRUE]

\* The caller's update callback, invoked with &mut runtime_controller.
update(s, u) ==
    LET s1 == Log(s, "update")
        s2 == CASE u.reg = "font" ->
                     [s1 EXCEPT !.imgui_fonts = register_font(@),
                                !.rets.dirty_after_reg =
                                    Flag(register_font(s1.imgui_fonts).updated)]
                [] u.reg = "codepoints" ->
                     [s1 EXCEPT !.imgui_fonts = register_codepoints(@),
                                !.rets.dirty_after_reg =
                                    Flag(register_codepoints(s1.imgui_fonts).updated)]
                [] OTHER -> s1
        s3 == IF u.debug = "none" THEN s2
              ELSE [toggle_debug_overlay(s2, u.debug = "on") EXCEPT
                        !.rets.debug = u.debug]
        s4 == IF u.capture = "none" THEN s3
              ELSE [toggle_screen_capture_visibility(
                        s3, u.capture = "visible", u.os_ok) EXCEPT
                        !.rets.capture = IF u.os_ok THEN "ok" ELSE "failed",
                        !.hist.last_capture =
                            [value |-> u.capture, ok |-> u.os_ok]]
    IN  [s4 EXCEPT !.ret = u.ret,
                   !.rets.update = IF u.ret THEN "continue" ELSE "stop"]

\* Faulty variant: the texture is uploaded before the font callback has run.
RebuildAtlas_uploads_early(s) ==
    LET s2 == Log(s, "fonts.clear")
        s3 == [Log(s2, "build_font_source") EXCEPT
                   !.rets.dirty_after_build = Flag(s2.imgui_fonts.updated)]
        s4 == [Log(Log(s3, "add_font"), "update_fonts_texture") EXCEPT
                   !.hist.uploaded = TRUE]
    IN  IF imgui_register_fonts_callback
        THEN Log(s4, "register_fonts_callback") ELSE s4

\* The steps of a font rebuild, up to the texture upload.
RebuildAtlas(s) ==
    LET s2 == Log(s, "fonts.clear")
        s3 == [Log(s2, "build_font_source") EXCEPT
                   !.rets.dirty_after_build = Flag(s2.imgui_fonts.updated)]
        s4 == Log(s3, "add_font")
        s5 == IF imgui_register_fonts_callback
              THEN Log(s4, "register_fonts_callback") ELSE s4
    IN  [Log(s5, "update_fonts_texture") EXCEPT !.hist.uploaded = TRUE]

\* Faulty variant: the atlas is rebuilt on every frame.
FontRebuild_every_frame(s) ==
    LET f == fetch_reset_flag_updated(s.imgui_fonts)
    IN  RebuildAtlas([s EXCEPT !.imgui_fonts = f.b,
                               !.rets.dirty_at_check = Flag(s.imgui_fonts.updated)])

\* Faulty variant: the dirty flag is read but not consumed.
FontRebuild_flag_kept(s) ==
    LET s1 == [s EXCEPT !.rets.dirty_at_check = Flag(s.imgui_fonts.updated)]
    IN  IF s.imgui_fonts.updated THEN RebuildAtlas(s1) ELSE s1

\* The conditional font rebuild of the update block.
FontRebuild(s) ==
    LET f == fetch_reset_flag_updated(s.imgui_fonts)
        s1 == [s EXCEPT !.imgui_fonts = f.b,
                        !.rets.dirty_at_check = Flag(s.imgui_fonts.updated)]
    IN  IF f.ret THEN RebuildAtlas(s1) ELSE s1

\* What happens while the frame is built: the render callback's return
\* value, whether it registers codepoints through the UnicodeTextRenderer it
\* is handed, and the history length typed into the debug panel (0: none).
\* The frames are explored without edits of the history length.
RenderInputs == [ret : BOOLEAN, text : BOOLEAN, history : {0}]
\* A render callback that draws no new text and asks to continue.
IdleRender == [ret |-> TRUE, text |-> FALSE, history |-> 0]

\* The caller's render callback.
render(s, r) ==
    LET s1 == [Log(s, "render") EXCEPT !.hist.render_calls = @ + 1]
        s2 == IF r.text
              THEN [s1 EXCEPT !.imgui_fonts = register_codepoints(@),
                              !.rets.dirty_after_reg =
                                  Flag(register_codepoints(s1.imgui_fonts).updated)]
              ELSE s1
    IN  [s2 EXCEPT !.ret = r.ret,
                   !.rets.render = IF r.ret THEN "continue" ELSE "stop",
                   !.hist.render_stop_at =
                       IF ~r.ret /\ @ = 0 THEN s1.hist.render_calls ELSE @]

\* platform.prepare_frame; ok is its outcome.
prepare_frame(s, ok) ==
    [Log(s, "prepare_frame") EXCEPT
         !.ret = ok,
         !.rets.prepare = IF ok THEN "ok" ELSE "failed",
         !.hist.prepare_failures = IF ok THEN @ ELSE @ + 1]

\* Faulty variant: a failed prepare_frame ends the loop like a normal stop.
PrepareFailed_plain_exit(s) == Stop(s, Exit, "prepare_failed")

\* prepare_frame failed: ExitWithCode(1), log the error, return.
PrepareFailed(s) == Stop(s, ExitWithCode(PrepareFailedCode), "prepare_failed")

\* Faulty variant: the render callback's stop is reported with the failure code.
RenderStopped_failure_code(s) ==
    Stop(s, ExitWithCode(PrepareFailedCode), "render_stop")

\* The render callback returned false: ExitWithCode(0), return.
RenderStopped(s) == Stop(s, ExitWithCode(RenderStopCode), "render_stop")

\* Faulty variant: the edited history length is not handed to the tracker.
DebugPanel_drops_edit(s, history) ==
    LET s1 == Log(s, "debug_panel")
    IN  IF history # 0 THEN [s1 EXCEPT !.rets.history_edit = history] ELSE s1

\* The "Render Debug" window: the history length field and the chart.
DebugPanel(s, history) ==
    LET s1 == Log(s, "debug_panel")
    IN  IF history # 0
        THEN [s1 EXCEPT !.perf = PerfTracker_set_history_length(@, history),
                        !.rets.history_edit = history]
        ELSE s1

\* Faulty variant: a failed prepare_frame sets the exit code and the frame
\* goes on.
GenerateFrame_ignores_failure(s, ok, r) ==
    LET s0 == prepare_frame(s, ok)
        s1 == IF s0.ret THEN s0 ELSE [PrepareFailed(s0) EXCEPT !.ret = TRUE]
        s2 == render(Log(s1, "imgui.frame"), r)
    IN  IF ~s2.ret
        THEN RenderStopped(s2)
        ELSE LET s3 == IF s2.debug_overlay_shown
                       THEN DebugPanel(s2, r.history) ELSE s2
                 s4 == perf_mark(s3, "perf.mark render frame")
                 s5 == Log(s4, "prepare_render")
             IN  Log(s5, "imgui.render")

\* The "Generate frame" block: ret is FALSE when it returned from the closure.
GenerateFrame(s, ok, r) ==
    LET s1 == prepare_frame(s, ok)
    IN  IF ~s1.ret
        THEN PrepareFailed(s1)
        ELSE LET s2 == render(Log(s1, "imgui.frame"), r)
             IN  IF ~s2.ret
                 THEN RenderStopped(s2)
                 ELSE LET s3 == IF s2.debug_overlay_shown
                                THEN DebugPanel(s2, r.history) ELSE s2
                          s4 == perf_mark(s3, "perf.mark render frame")
                          s5 == Log(s4, "prepare_render")
                      IN  Log(s5, "imgui.render")

\* RenderBackend::render_frame; the backend records its own mark.
render_frame(s) ==
    perf_mark([Log(s, "render_frame") EXCEPT !.hist.submissions = @ + 1],
              "perf.mark backend")

\* The first-frame steps of frame_rendered.
InitialFrame(s) ==
    LET s2 == [Log(s, "ShowWindow") EXCEPT !.overlay_visible = TRUE,
                                           !.hist.show_count = @ + 1]
    IN  [Log(s2, "mark_force_update") EXCEPT
             !.window_tracker = mark_force_update(@),
             !.hist.force_marks = @ + 1]

\* Faulty variant: only the first frame is counted.
frame_rendered_counts_first_only(s) ==
    LET s1 == Log(s, "frame_rendered")
    IN  IF s.frame_count = 0
        THEN InitialFrame([s1 EXCEPT !.frame_count = 1]) ELSE s1

\* Faulty variant: the window is shown after every frame.
frame_rendered_every_frame(s) ==
    InitialFrame([Log(s, "frame_rendered") EXCEPT !.frame_count = @ + 1])

\* SystemRuntimeController::frame_rendered.  frame_count is a u64; 2^64
\* frames are out of reach of any run.
frame_rendered(s) ==
    LET s1 == [Log(s, "frame_rendered") EXCEPT !.frame_count = @ + 1]
    IN  IF s1.frame_count = 1 THEN InitialFrame(s1) ELSE s1

\* Faulty variant: the result of update_state is ignored.
UpdateBlock_ignores_tracker(s, u) ==
    LET s2 == update(update_state(s), u)
    IN  IF ~s2.ret
        THEN Stop(s2, Exit, "update_stop")
        ELSE perf_mark(FontRebuild(s2), "perf.mark update")

\* The "Update" block: ret is FALSE when it returned from the closure.
UpdateBlock(s, u) ==
    LET s1 == update_state(s)
    IN  IF ~s1.ret
        THEN Stop(s1, Exit, "target_closed")
        ELSE LET s2 == update(s1, u)
             IN  IF ~s2.ret
                 THEN Stop(s2, Exit, "update_stop")
                 ELSE perf_mark(FontRebuild(s2), "perf.mark update")

\* Faulty variant: the frame is submitted before the render callback's
\* result is looked at.
MainEventsCleared_arm_submits_first(s, u, ok, r) ==
    LET s1 == UpdateBlock(perf_mark(s, "perf.mark events cleared"), u)
    IN  IF ~s1.ret THEN s1
        ELSE LET s2 == GenerateFrame(s1, ok, r)
             IN  IF ~s2.ret /\ s2.why = "prepare_failed" THEN s2
                 ELSE IF ~s2.ret
                      THEN [render_frame(s2) EXCEPT !.ret = FALSE]
                      ELSE frame_rendered(render_frame(s2))

\* Faulty variant: the frame is submitted although frame preparation failed.
MainEventsCleared_arm_submits_unprepared(s, u, ok, r) ==
    LET s1 == UpdateBlock(perf_mark(s, "perf.mark events cleared"), u)
    IN  IF ~s1.ret THEN s1
        ELSE LET s2 == GenerateFrame(s1, ok, r)
             IN  IF ~s2.ret /\ s2.why = "render_stop" THEN s2
                 ELSE IF ~s2.ret
                      THEN [render_frame(s2) EXCEPT !.ret = FALSE]
                      ELSE frame_rendered(render_frame(s2))

\* The Event::MainEventsCleared arm of the closure.
MainEventsCleared_arm(s, u, ok, r) ==
    LET s1 == UpdateBlock(perf_mark(s, "perf.mark events cleared"), u)
    IN  IF ~s1.ret THEN s1
        ELSE LET s2 == GenerateFrame(s1, ok, r)
             IN  IF ~s2.ret THEN s2
                 ELSE frame_rendered(render_frame(s2))

\* Faulty variant: the iteration does not open a new record.
NewEvents_arm_without_begin(s) == s

\* The Event::NewEvents arm of the closure.
NewEvents_arm(s) == perf_begin(s)

\* The WindowEvent::CloseRequested arm of the closure.
CloseRequested_arm(s) == Stop(s, Exit, "close_requested")

----------------------------------------------------------------------------
\* The event loop calls the closure and takes over what it left.  Once the
\* control flow is ExitWithCode it stays so: the closure is then handed a
\* scratch control flow whose value is dropped.
Deliver(s, next_el) ==
    /\ el' = next_el
    /\ control_flow' = IF control_flow.exit THEN control_flow ELSE s.cf
    /\ first_reason' = IF ~control_flow.exit /\ s.cf.exit THEN s.why
                       ELSE first_reason
    /\ frame_count' = s.frame_count
    /\ debug_overlay_shown' = s.debug_overlay_shown
    /\ imgui_fonts' = s.imgui_fonts
    /\ window_tracker' = s.window_tracker
    /\ overlay_rect' = s.overlay_rect
    /\ overlay_visible' = s.overlay_visible
    /\ display_affinity' = s.display_affinity
    /\ perf' = s.perf
    /\ calls' = s.calls
    /\ rets' = s.rets
    /\ hist' = s.hist
    /\ UNCHANGED << result, imgui_register_fonts_callback, target_kind,
                    target_exists, target_rect >>

Init ==
    /\ el = "idle"
    /\ control_flow = Poll
    /\ result = NotReturned
    /\ iterations = 0
    /\ frame_count = 0
    /\ debug_overlay_shown = FALSE
    /\ imgui_fonts = init_imgui_fonts
    /\ window_tracker = WindowTracker_new
    /\ overlay_rect = InitialWindowRect
    /\ overlay_visible = FALSE
    /\ imgui_register_fonts_callback \in BOOLEAN
    /\ display_affinity = "WDA_NONE"
    /\ perf = PerfTracker_new(PERF_RECORDS)
    /\ target_kind \in {"Window", "Rectangle"}
    /\ target_exists = TRUE
    /\ target_rect = InitialTargetRect
    /\ calls = << >>
    /\ rets = NoRets
    /\ hist = NoHist
    /\ first_reason = "none"

\* Event::NewEvents starts an iteration.
NewEvents ==
    /\ el = "idle"
    /\ ~control_flow.exit
    /\ iterations < MaxIter
    /\ iterations' = iterations + 1
    /\ Deliver(NewEvents_arm(HandlerEntry(Cur)), "events")

\* WindowEvent::CloseRequested arrives among the events of an iteration.
CloseRequested ==
    /\ el = "events"
    /\ UNCHANGED iterations
    /\ Deliver(CloseRequested_arm(HandlerEntry(Cur)), "events")

\* Event::MainEventsCleared: one frame.  The outcomes of the callbacks and of
\* prepare_frame are drawn only for the calls the arm gets to make.
MainEventsClearedWith(U, R) ==
    /\ el = "events"
    /\ UNCHANGED iterations
    /\ \E u \in IF TargetLost THEN {IdleUpdate} ELSE U :
          \E ok \in IF ~TargetLost /\ u.ret THEN BOOLEAN ELSE {TRUE} :
             \E r \in IF ~TargetLost /\ u.ret /\ ok THEN R
                       ELSE {IdleRender} :
                /\ u.reg = "font" => imgui_fonts.fonts < MaxFonts
                /\ Deliver(MainEventsCleared_arm(HandlerEntry(Cur), u, ok, r),
                           "cleared")

MainEventsCleared == MainEventsClearedWith(UpdateInputs, RenderInputs)

\* Event::RedrawEventsCleared ends the iteration (the `_ => {}` arm).
RedrawEventsCleared ==
    /\ el = "cleared"
    /\ UNCHANGED iterations
    /\ Deliver(HandlerEntry([Cur EXCEPT !.calls = << >>, !.rets = NoRets]), "idle")

\* Event::LoopDestroyed (the `_ => {}` arm), then run_return returns the code.
LoopDestroyed ==
    /\ el = "idle"
    /\ control_flow.exit
    /\ result' = Returned(control_flow.code)
    /\ el' = "returned"
    /\ UNCHANGED << control_flow, iterations, frame_count, debug_overlay_shown,
                    imgui_fonts, window_tracker, overlay_rect, overlay_visible,
                    imgui_register_fonts_callback, display_affinity, perf,
                    target_kind, target_exists, target_rect, calls, rets,
                    hist, first_reason >>

\* The target window is moved or resized by its owner.
TargetMoved ==
    /\ el = "idle"
    /\ ~control_flow.exit
    /\ target_kind = "Window"
    /\ target_exists
    /\ \E r \in Rects \ {target_rect} : target_rect' = r
    /\ UNCHANGED << el, control_flow, result, iterations, frame_count,
                    debug_overlay_shown, imgui_fonts, window_tracker,
                    overlay_rect, overlay_visible,
                    imgui_register_fonts_callback, display_affinity, perf,
                    target_kind, target_exists, calls, rets, hist,
                    first_reason >>

\* The target window is destroyed: its handle becomes invalid.
TargetClosed ==
    /\ el = "idle"
    /\ ~control_flow.exit
    /\ target_kind = "Window"
    /\ target_exists
    /\ target_exists' = FALSE
    /\ UNCHANGED << el, control_flow, result, iterations, frame_count,
                    debug_overlay_shown, imgui_fonts, window_tracker,
                    overlay_rect, overlay_visible,
                    imgui_register_fonts_callback, display_affinity, perf,
                    target_kind, target_rect, calls, rets, hist,
                    first_reason >>

Next ==
    \/ NewEvents
    \/ CloseRequested
    \/ MainEventsCleared
    \/ RedrawEventsCleared
    \/ LoopDestroyed
    \/ TargetMoved
    \/ TargetClosed

Spec == Init /\ [][Next]_vars

\* The loop with a user who edits the history length in the debug panel; the
\* callbacks register nothing, so that the ring is what varies.
PerfUpdateInputs ==
    [ret : BOOLEAN, reg : {"none"}, debug : {"none", "on", "off"},
     capture : {"none"}, os_ok : {TRUE}]
PerfRenderInputs == [ret : BOOLEAN, text : {FALSE}, history : 0..MaxHistory]
MainEventsClearedPerf == MainEventsClearedWith(PerfUpdateInputs, PerfRenderInputs)

NextPerf ==
    \/ NewEvents
    \/ CloseRequested
    \/ MainEventsClearedPerf
    \/ RedrawEventsCleared
    \/ LoopDestroyed
    \/ TargetMoved
    \/ TargetClosed

SpecPerf == Init /\ [][NextPerf]_vars

\* The loop with an update callback that toggles the capture visibility;
\* SetWindowDisplayAffinity may fail on any call.
CaptureUpdateInputs ==
    { u \in [ret : BOOLEAN, reg : {"none"}, debug : {"none"},
              capture : {"none", "visible", "hidden"}, os_ok : BOOLEAN] :
          u.capture = "none" => u.os_ok }
CaptureRenderInputs == [ret : BOOLEAN, text : {FALSE}, history : {0}]
MainEventsClearedCapture ==
    MainEventsClearedWith(CaptureUpdateInputs, CaptureRenderInputs)

NextCapture ==
    \/ NewEvents
    \/ CloseRequested
    \/ MainEventsClearedCapture
    \/ RedrawEventsCleared
    \/ LoopDestroyed
    \/ TargetMoved
    \/ TargetClosed

SpecCapture == Init /\ [][NextCapture]_vars

----------------------------------------------------------------------------
\* Reading the observations.
Has(c) == \E i \in 1..Len(calls) : calls[i] = c
Count(c) == Cardinality({i \in 1..Len(calls) : calls[i] = c})
Pos(c) == CHOOSE i \in 1..Len(calls) : calls[i] = c
Before(a, b) == \A i, j \in 1..Len(calls) :
                    (calls[i] = a /\ calls[j] = b) => i < j
RebuildCalls == {"fonts.clear", "build_font_source", "add_font",
                 "register_fonts_callback", "update_fonts_texture"}
Returned0 == Returned(Exit.code)
HasReturned == result # NotReturned
\* A MainEventsCleared step.
FrameStep == el = "events" /\ el' = "cleared"

\* C1: in every iteration the phases run in the order mouse sampling,
\* keyboard sampling, window tracker update, update callback, font-atlas
\* rebuild, render callback; each runs at most once, and a phase runs only
\* after the earlier unconditional phases of the same iteration have run.
PhaseOrder == << "mouse.update", "keyboard.update", "window_tracker.update",
                 "update", "update_fonts_texture", "render" >>
C1_PhaseOrder ==
    /\ \A m, n \in 1..Len(PhaseOrder) :
          m < n => Before(PhaseOrder[m], PhaseOrder[n])
    /\ \A m \in 1..Len(PhaseOrder) : Count(PhaseOrder[m]) <= 1
    /\ \A c \in RebuildCalls : Before("update", c) /\ Before(c, "render")
    /\ Has("keyboard.update") => Has("mouse.update")
    /\ Has("window_tracker.update") => Has("keyboard.update")
    /\ Has("update") => Has("window_tracker.update")
    /\ \A c \in RebuildCalls : Has(c) => Has("update")
    /\ Has("render") => Has("update")
C1_Witness ==
    /\ Has("update_fonts_texture")
    /\ Has("render")
    /\ Has("render_frame")

\* C2: when the target handle is invalid at a window tracker update, that
\* update reports the loss, the control flow becomes ExitWithCode(0), the
\* arm makes no further call, and afterwards no new iteration starts and no
\* callback, rebuild or submission happens; the loss is reported at most
\* once and the loop returns 0.
C2_TargetLoss ==
    /\ [](hist.loss_reports <= 1)
    /\ [](rets.tracker = "lost" =>
             /\ calls[Len(calls)] = "window_tracker.update"
             /\ ~Has("update") /\ ~Has("render") /\ ~Has("render_frame")
             /\ \A c \in RebuildCalls : ~Has(c)
             /\ control_flow = Exit)
    /\ []((HasReturned /\ hist.loss_reports = 1) => result = Returned0)
    /\ [][(FrameStep /\ TargetLost) =>
             /\ hist'.loss_reports = hist.loss_reports + 1
             /\ rets'.tracker = "lost"]_vars
    /\ [][hist.loss_reports >= 1 =>
             /\ el' # "events"
             /\ Len(calls') <= Len(calls)
             /\ hist' = hist]_vars
C2_Witness ==
    /\ hist.loss_reports = 1
    /\ hist.submissions >= 1
    /\ result = Returned0

\* C3 as stated: a first stop on the render callback's k-th invocation
\* yields exactly k submissions and exit status 0.
C3_Original ==
    (HasReturned /\ hist.render_stop_at > 0) =>
        /\ hist.submissions = hist.render_stop_at
        /\ result = Returned0
\* C3 amended: a first stop on the render callback's k-th invocation yields
\* exactly k - 1 submissions (the frame being built when the callback asks
\* to stop is not submitted) and exit status 0.
C3_Amended ==
    hist.render_stop_at > 0 =>
        /\ hist.submissions = hist.render_stop_at - 1
        /\ hist.render_calls = hist.render_stop_at
        /\ control_flow.exit /\ control_flow.code = 0
        /\ HasReturned => result = Returned0
C3_Witness ==
    /\ hist.render_stop_at = 5
    /\ hist.submissions = 4
    /\ result = Returned0

\* C4: the returned status is 0 when the loop ended because the target
\* closed, a callback asked to stop or the close event arrived, and it is
\* non-zero exactly when the loop ended because frame preparation failed.
C4_ExitStatus ==
    HasReturned =>
        /\ first_reason \in {"target_closed", "update_stop", "render_stop",
                             "close_requested", "prepare_failed"}
        /\ first_reason # "prepare_failed" => result = Returned0
        /\ first_reason = "prepare_failed" =>
               result = Returned(PrepareFailedCode) /\ result # Returned0
C4_Witness ==
    /\ result = Returned(PrepareFailedCode)
    /\ first_reason = "prepare_failed"
    /\ frame_count >= 1

\* C5 as stated: the status returned after a stop by the render callback is
\* produced by no other normal termination.
C5_Original ==
    (HasReturned /\ first_reason \in {"target_closed", "update_stop",
                                      "close_requested"}) =>
        result # Returned(RenderStopCode)
\* C5 amended: a stop by the render callback returns status 0, the status of
\* every normal termination; it differs only from the status of a frame
\* preparation failure.
C5_Amended ==
    (HasReturned /\ first_reason = "render_stop") =>
        /\ result = Returned(Exit.code)
        /\ result # Returned(PrepareFailedCode)
C5_Witness ==
    /\ HasReturned
    /\ first_reason = "render_stop"

\* C6: a frame is finalized and submitted in an iteration only if the window
\* tracker update succeeded, the update callback returned continue, frame
\* preparation succeeded and the render callback returned continue in that
\* iteration; when a checkpoint fires nothing is finalized or submitted.
C6_NoPartialFrame ==
    /\ (Has("render_frame") \/ Has("imgui.render")) =>
          /\ rets.tracker = "ok"
          /\ rets.update = "continue"
          /\ rets.prepare = "ok"
          /\ rets.render = "continue"
    /\ (\/ rets.tracker = "lost"
        \/ rets.update = "stop"
        \/ rets.prepare = "failed"
        \/ rets.render = "stop") =>
          /\ ~Has("imgui.render")
          /\ ~Has("render_frame")
          /\ ~Has("frame_rendered")
    /\ Count("render_frame") <= 1
C6_Witness ==
    /\ rets.prepare = "failed"
    /\ hist.submissions >= 1
    /\ ~Has("render_frame")

\* C7: the font-atlas rebuild runs in an iteration exactly when the dirty
\* flag is set at the check after the update callback; with the flag clear
\* no rebuild step runs, and each step runs at most once per iteration.
C7_RebuildIffDirty ==
    /\ Has("update_fonts_texture") <=> rets.dirty_at_check = "set"
    /\ rets.dirty_at_check # "set" => \A c \in RebuildCalls : ~Has(c)
    /\ rets.dirty_at_check = "set" =>
          \A c \in RebuildCalls \ {"register_fonts_callback"} : Has(c)
    /\ \A c \in RebuildCalls : Count(c) <= 1
    /\ rets.dirty_at_check # "none" => rets.update = "continue"
C7_Witness ==
    /\ rets.dirty_at_check = "clear"
    /\ Has("render_frame")

\* C8: the dirty flag is set after every registration (those of init and
\* those made by the callbacks) and clear immediately after a build.
C8_DirtyFlag ==
    /\ rets.dirty_after_reg # "clear"
    /\ rets.dirty_after_build # "set"
    /\ iterations = 0 => imgui_fonts.updated
    /\ (el = "cleared" /\ rets.dirty_after_build = "clear"
            /\ rets.render = "none") => ~imgui_fonts.updated
C8_Witness ==
    /\ rets.dirty_after_reg = "set"
    /\ rets.dirty_after_build = "clear"
    /\ frame_count >= 2

\* C9: the overlay window is shown, and the window tracker forced to
\* resynchronize, once: right after the first submitted frame, not before a
\* frame was submitted, and not on later frames.
C9_ShownOnce ==
    /\ hist.show_count = (IF hist.submissions >= 1 THEN 1 ELSE 0)
    /\ hist.force_marks = hist.show_count
    /\ overlay_visible <=> hist.submissions >= 1
    /\ Has("ShowWindow") =>
          /\ hist.submissions = 1
          /\ Pos("frame_rendered") = Pos("render_frame") + 2
          /\ calls[Pos("render_frame") + 1] = "perf.mark backend"
          /\ Pos("ShowWindow") = Pos("frame_rendered") + 1
          /\ Pos("mark_force_update") = Pos("frame_rendered") + 2
          /\ window_tracker.force
C9_Witness ==
    /\ hist.submissions >= 2
    /\ hist.show_count = 1
    /\ overlay_visible

\* C10: after the update phase of every frame in which the target still
\* exists, the overlay window's rectangle equals the target's rectangle, so
\* a move or resize is followed on the very next update.
C10_OverlayFollowsTarget ==
    [][(FrameStep /\ ~TargetLost) =>
          /\ rets'.tracker = "ok"
          /\ overlay_rect' = target_rect
          /\ window_tracker'.bounds = target_rect]_vars
C10_Witness ==
    /\ hist.move_synced
    /\ el = "cleared"
    /\ target_rect = <<100, 50, 800, 600>>
    /\ overlay_rect = <<100, 50, 800, 600>>

Min(a, b) == IF a <= b THEN a ELSE b
\* A NewEvents step.
BeginStep == el = "idle" /\ el' = "events"

PerfMarks == {"perf.mark events cleared", "perf.mark update",
              "perf.mark render frame", "perf.mark backend"}
IsPerfMark(c) == c \in PerfMarks
CurrentRecord == perf.records[Len(perf.records)]

\* C12: every mark of an iteration comes after the begin of that iteration,
\* and the current record holds exactly the marks made since that begin, in
\* call order.
C12_MarksInOpenRecord ==
    calls # << >> =>
        /\ calls[1] = "perf.begin"
        /\ Count("perf.begin") = 1
        /\ perf.records # << >>
        /\ CurrentRecord.at = iterations
        /\ CurrentRecord.marks = SelectSeq(calls, IsPerfMark)
C12_Witness ==
    /\ iterations >= 2
    /\ el = "cleared"
    /\ CurrentRecord.marks = << "perf.mark events cleared", "perf.mark update",
                                "perf.mark render frame", "perf.mark backend" >>

\* A record equals another one except for its display affinity.
SameButAffinity(a, b) == [a EXCEPT !.display_affinity = b.display_affinity] = b
\* The value of the toggle made in a MainEventsCleared step, if any.
ToggledValue == hist'.last_capture.value
RepeatsToggle == /\ FrameStep
                 /\ rets'.capture # "none"
                 /\ hist.last_capture.value = ToggledValue

RebuildSteps ==
    IF imgui_register_fonts_callback
    THEN <<"fonts.clear", "build_font_source", "add_font",
           "register_fonts_callback", "update_fonts_texture">>
    ELSE <<"fonts.clear", "build_font_source", "add_font",
           "update_fonts_texture">>
IsRebuildStep(c) == c \in RebuildCalls

\* C14: the rebuild steps of an iteration are either none or exactly, in this
\* order and once each: clear, build and add the font, the font callback
\* (when one is configured), upload; the font callback is never invoked
\* without a rebuild, and a rebuild runs right after the update callback.
C14_RebuildOrder ==
    LET steps == SelectSeq(calls, IsRebuildStep)
    IN  /\ steps \in {<< >>, RebuildSteps}
        /\ steps # << >> =>
              /\ Has("update")
              /\ Pos("fonts.clear") = Pos("update") + 1
              /\ Pos("update_fonts_texture") =
                     Pos("fonts.clear") + Len(RebuildSteps) - 1
              /\ Count("register_fonts_callback") =
                     IF imgui_register_fonts_callback THEN 1 ELSE 0
C14_Witness ==
    /\ iterations >= 2
    /\ el = "cleared"
    /\ hist.submissions >= 1
    /\ Has("register_fonts_callback")
    /\ Before("add_font", "register_fonts_callback")
    /\ Before("register_fonts_callback", "update_fonts_texture")

\* C15: prepare_frame is attempted at most once per iteration; when it fails
\* the handler returns at once (no imgui frame, render callback, debug
\* panel, submission or frame-counter increment in that iteration), and
\* none of them is executed afterwards: no further iteration starts.
C15_PrepareFailure ==
    /\ [](Count("prepare_frame") <= 1)
    /\ [](hist.prepare_failures <= 1)
    /\ [](rets.prepare = "failed" =>
             /\ calls[Len(calls)] = "prepare_frame"
             /\ \A c \in {"imgui.frame", "render", "debug_panel",
                          "render_frame", "frame_rendered"} : ~Has(c)
             /\ control_flow.exit)
    /\ [][(FrameStep /\ rets'.prepare = "failed") =>
             /\ hist'.prepare_failures = hist.prepare_failures + 1
             /\ hist'.submissions = hist.submissions
             /\ hist'.render_calls = hist.render_calls
             /\ frame_count' = frame_count]_vars
    /\ [][hist.prepare_failures >= 1 =>
             /\ el' # "events"
             /\ Len(calls') <= Len(calls)
             /\ hist' = hist
             /\ frame_count' = frame_count]_vars
C15_Witness ==
    /\ hist.prepare_failures = 1
    /\ rets.prepare = "failed"
    /\ debug_overlay_shown
    /\ frame_count >= 2
    /\ first_reason = "prepare_failed"

\* C16: the debug flag is false until the first toggle and afterwards holds
\* the value of the most recent toggle_debug_overlay call; the toggle changes
\* nothing else; the debug panel is drawn in an iteration iff the flag is
\* set and the render callback returned "continue".
C16_DebugFlag ==
    /\ []((iterations = 0 /\ el = "idle") => ~debug_overlay_shown)
    /\ [](\A v \in BOOLEAN :
             toggle_debug_overlay(Cur, v) = [Cur EXCEPT !.debug_overlay_shown = v])
    /\ [][(FrameStep /\ rets'.debug # "none") =>
             debug_overlay_shown' = (rets'.debug = "on")]_vars
    /\ [][~(FrameStep /\ rets'.debug # "none") =>
             debug_overlay_shown' = debug_overlay_shown]_vars
    /\ [](el = "cleared" =>
             (Has("debug_panel") <=>
                  (debug_overlay_shown /\ rets.render = "continue")))
    /\ [](Has("debug_panel") =>
             /\ Count("debug_panel") = 1
             /\ Pos("debug_panel") = Pos("render") + 1)
C16_Witness ==
    /\ el = "cleared"
    /\ rets.debug = "on"
    /\ debug_overlay_shown
    /\ rets.render = "continue"
    /\ Has("debug_panel")
    /\ hist.submissions >= 3

\* The close event has been received: CloseRequested is only delivered while
\* no exit is pending, so it is then the first termination reason.
CloseReceived == first_reason = "close_requested"
\* A step that invokes the update callback, the render callback or the
\* backend submission.
ProducesFrame ==
    \/ hist'.render_calls # hist.render_calls
    \/ hist'.submissions # hist.submissions
    \/ /\ calls' # calls
       /\ \E i \in 1..Len(calls') : calls'[i] = "update"
\* The exit code is kept from the first exit request to the return.
ExitKept ==
    /\ [][control_flow.exit => control_flow' = control_flow]_vars
    /\ [](HasReturned =>
             /\ control_flow.exit
             /\ result = Returned(control_flow.code))

\* C17: after the close event no event delivered to the handler invokes the
\* update callback, the render callback or the backend submission, and the
\* loop returns status 0.
C17_NoFrameAfterClose ==
    /\ [][CloseReceived => ~ProducesFrame]_vars
    /\ []((HasReturned /\ CloseReceived) => result = Returned0)
\* What does hold after the close event: the exit stays pending, the frame
\* of the same iteration is the last one, and the status is 0.
C17_CloseExitsWithZero ==
    /\ [](CloseReceived => control_flow = Exit)
    /\ [][(CloseReceived /\ el # "events") => ~ProducesFrame]_vars
    /\ []((HasReturned /\ CloseReceived) => result = Returned0)
C17_Witness ==
    /\ CloseReceived
    /\ el = "cleared"
    /\ Has("update") /\ Has("render") /\ Has("render_frame")
    /\ frame_count >= 2

\* C18: once the control flow is an exit it stays that exit with the same
\* code up to the return, and no frame is started after it.
C18_StickyExit ==
    /\ ExitKept
    /\ [][control_flow.exit => (~ProducesFrame /\ frame_count' = frame_count)]_vars
C18_Witness ==
    /\ HasReturned
    /\ CloseReceived
    /\ hist.prepare_failures = 1
    /\ result = Returned0

\* The iteration of a MainEventsCleared step passed every checkpoint.
FramePassed ==
    /\ rets'.tracker = "ok"
    /\ rets'.update = "continue"
    /\ rets'.prepare = "ok"
    /\ rets'.render = "continue"

\* C19: the frame counter is 0 at the start and always equals the number of
\* frames submitted so far; frame_rendered follows each submission at once
\* and adds exactly 1; an iteration that ends at a termination checkpoint
\* and every event other than MainEventsCleared leave the counter alone.
C19_FrameCounter ==
    /\ []((iterations = 0 /\ el = "idle") => frame_count = 0)
    /\ [](frame_count = hist.submissions)
    /\ [](Count("render_frame") = Count("frame_rendered"))
    /\ [](Has("render_frame") =>
             /\ calls[Pos("render_frame") + 1] = "perf.mark backend"
             /\ calls[Pos("render_frame") + 2] = "frame_rendered")
    /\ [][~FrameStep => frame_count' = frame_count]_vars
    /\ [][(FrameStep /\ FramePassed) => frame_count' = frame_count + 1]_vars
    /\ [][(FrameStep /\ ~FramePassed) => frame_count' = frame_count]_vars
C19_Witness ==
    /\ frame_count = 3
    /\ hist.submissions = 3
    /\ el = "cleared"
    /\ rets.render = "stop"

\* C20: the dirty flag is set when the loop starts and stays set until the
\* first rebuild; the first iteration whose update callback returns
\* "continue" rebuilds and uploads the atlas; the render callback is never
\* invoked and no frame is submitted before an upload has happened, and in
\* the iteration of the first upload the upload comes before the render
\* callback.
C20_AtlasBeforeRender ==
    /\ []((iterations = 0 /\ el = "idle") =>
             (imgui_fonts.updated /\ ~hist.uploaded))
    /\ [](~hist.uploaded => imgui_fonts.updated)
    /\ [][(FrameStep /\ ~hist.uploaded /\ rets'.update = "continue") =>
             /\ rets'.dirty_at_check = "set"
             /\ hist'.uploaded
             /\ rets'.dirty_after_build = "clear"]_vars
    /\ []((hist.render_calls >= 1 \/ hist.submissions >= 1 \/ Has("render")
              \/ Has("render_frame")) => hist.uploaded)
    /\ []((Has("render") /\ Has("update_fonts_texture")) =>
             Before("update_fonts_texture", "render"))
C20_Witness ==
    /\ iterations = 1
    /\ el = "cleared"
    /\ hist.uploaded
    /\ hist.render_calls = 1
    /\ hist.submissions = 1
    /\ Pos("update_fonts_texture") < Pos("render")

====
